---- MODULE Spec2Model ----
(***************************************************************************)
(* A model of detect_goose.run(): the source classification, the frame     *)
(* loop, the per-image result sinks (class counts, CSV, text labels,       *)
(* annotated image / per-stream video writers) and the final summary.      *)
(*                                                                         *)
(* Text is modelled as sequences of one-character strings, so that         *)
(* startswith / endswith / lower / Path.suffix are computed, not assumed.  *)
(***************************************************************************)
EXTENDS Integers, Sequences, FiniteSets, TLC

(***************************************************************************)
(* Bounds of the model.                                                    *)
(***************************************************************************)
\* pulls of the frame provider after which an unbounded provider is cut off
MaxBatches == 3
\* frames a video file of the file sequence holds at most
MaxVidFrames == 2
\* length of a suppressed detection list (max_det of the run)
MaxDets == 2

None == "None"

(***************************************************************************)
(* Text helpers (str and pathlib.Path methods used by run()).              *)
(***************************************************************************)
UpperChars == <<"A","B","C","D","E","F","G","H","I","J","K","L","M",
                "N","O","P","Q","R","S","T","U","V","W","X","Y","Z">>
LowerChars == <<"a","b","c","d","e","f","g","h","i","j","k","l","m",
                "n","o","p","q","r","s","t","u","v","w","x","y","z">>
DigitChars == <<"0","1","2","3","4","5","6","7","8","9">>

Range(s) == {s[k] : k \in DOMAIN s}

\* str.lower() on one character
LowerChar(c) ==
    IF \E k \in DOMAIN UpperChars : UpperChars[k] = c
    THEN LowerChars[CHOOSE k \in DOMAIN UpperChars : UpperChars[k] = c]
    ELSE c

\* str.lower()
Lower(s) == [k \in DOMAIN s |-> LowerChar(s[k])]

\* str.startswith(t)
StartsWith(s, t) == Len(s) >= Len(t) /\ SubSeq(s, 1, Len(t)) = t

\* str.endswith(t)
EndsWith(s, t) == Len(s) >= Len(t) /\ SubSeq(s, Len(s) - Len(t) + 1, Len(s)) = t

\* str.isnumeric(): non-empty and every character a digit
IsNumeric(s) == Len(s) > 0 /\ \A k \in DOMAIN s : s[k] \in Range(DigitChars)

\* position of the last occurrence of character c in s, 0 when absent (str.rfind + 1)
RFind(s, c) ==
    IF \E k \in DOMAIN s : s[k] = c
    THEN CHOOSE k \in DOMAIN s : s[k] = c /\ \A j \in DOMAIN s : s[j] = c => j <= k
    ELSE 0

\* s without its trailing slashes (pathlib drops them when it parses a path)
RECURSIVE StripSlash(_)
StripSlash(s) ==
    IF Len(s) > 1 /\ s[Len(s)] = "/" THEN StripSlash(SubSeq(s, 1, Len(s) - 1)) ELSE s

\* Path(s).name: the final path component
Name(s) ==
    LET t == StripSlash(s) IN SubSeq(t, RFind(t, "/") + 1, Len(t))

\* Path(s).suffix: from the last dot of the name, when that dot is neither the
\* first nor the last character of the name; otherwise empty
Suffix(s) ==
    LET n == Name(s)
        d == RFind(n, ".")
    IN  IF 1 < d /\ d < Len(n) THEN SubSeq(n, d, Len(n)) ELSE <<>>

\* Path(s).stem: the name without its suffix
Stem(s) ==
    LET n == Name(s) IN SubSeq(n, 1, Len(n) - Len(Suffix(s)))

\* Path(s).with_suffix(x) applied to a bare file name
WithSuffix(s, x) == Stem(s) \o x

Tail1(s) == IF Len(s) = 0 THEN s ELSE Tail(s)

(***************************************************************************)
(* Text constants of the program.                                          *)
(***************************************************************************)
DotTxt == <<".","t","x","t">>
DotStreams == <<".","s","t","r","e","a","m","s">>
DotMp4 == <<".","m","p","4">>
ScreenPrefix == <<"s","c","r","e","e","n">>
UrlPrefixes == { <<"r","t","s","p",":","/","/">>, <<"r","t","m","p",":","/","/">>,
                 <<"h","t","t","p",":","/","/">>, <<"h","t","t","p","s",":","/","/">> }

\* image and video extensions the loaders know (a representative part of the lists)
IMG_FORMATS == { <<"j","p","g">>, <<"p","n","g">>, <<"b","m","p">> }
VID_FORMATS == { <<"m","p","4">>, <<"a","v","i">>, <<"m","o","v">> }

(***************************************************************************)
(* Source classification, lines 153-157 of run().                          *)
(***************************************************************************)
\* a variant that saves whatever no-save says
SaveImgOf_IgnoresNosave(nosave, s) == ~EndsWith(s, DotTxt)

\* a variant that saves whatever the descriptor ends with
SaveImgOf_IgnoresTxt(nosave, s) == ~nosave

\* save_img = not nosave and not source.endswith(".txt")
SaveImgOf(nosave, s) == ~nosave /\ ~EndsWith(s, DotTxt)

\* is_file = Path(source).suffix[1:] in (IMG_FORMATS + VID_FORMATS)
IsFileOf(s) == Tail1(Suffix(s)) \in (IMG_FORMATS \cup VID_FORMATS)

\* is_url = source.lower().startswith(("rtsp://", "rtmp://", "http://", "https://"))
IsUrlOf(s) == \E p \in UrlPrefixes : StartsWith(Lower(s), p)

\* webcam = source.isnumeric() or source.endswith(".streams") or (is_url and not is_file)
WebcamOf(s) == IsNumeric(s) \/ EndsWith(s, DotStreams) \/ (IsUrlOf(s) /\ ~IsFileOf(s))

\* screenshot = source.lower().startswith("screen")
ScreenshotOf(s) == StartsWith(Lower(s), ScreenPrefix)

\* a variant that fetches every URL
NeedsDownload_AnyUrl(s) == IsUrlOf(s)

\* if is_url and is_file: source = check_file(source)
NeedsDownload(s) == IsUrlOf(s) /\ IsFileOf(s)

\* check_file on a URL: the file is fetched into the working directory under the
\* URL's last path component, and that local name is returned; a file that
\* cannot be fetched is fatal (the fetched branch of Classify)
check_file(s) == Name(s)

(***************************************************************************)
(* Source descriptors the run is started with.                             *)
(***************************************************************************)
\* 0
SrcWebcam0 == <<"0">>
\* a.streams
SrcStreamList == <<"a",".","s","t","r","e","a","m","s">>
\* screen
SrcScreen == <<"s","c","r","e","e","n">>
\* Screen
SrcScreenUpper == <<"S","c","r","e","e","n">>
\* screen.streams
SrcScreenStreams == <<"s","c","r","e","e","n",".","s","t","r","e","a","m","s">>
\* rtsp://h/c
SrcRtsp == <<"r","t","s","p",":","/","/","h","/","c">>
\* http://h/a.jpg
SrcUrlJpg == <<"h","t","t","p",":","/","/","h","/","a",".","j","p","g">>
\* https://h/v.mp4
SrcUrlMp4 == <<"h","t","t","p","s",":","/","/","h","/","v",".","m","p","4">>
\* rtsp://h/m.mp4
SrcRtspMp4 == <<"r","t","s","p",":","/","/","h","/","m",".","m","p","4">>
\* RTSP://h/c
SrcUrlUpper == <<"R","T","S","P",":","/","/","h","/","c">>
\* http://h/a.JPG
SrcUrlUpperExt == <<"h","t","t","p",":","/","/","h","/","a",".","J","P","G">>
\* a.jpg
SrcJpg == <<"a",".","j","p","g">>
\* v.avi
SrcAvi == <<"v",".","a","v","i">>
\* dir
SrcDir == <<"d","i","r">>
\* l.txt
SrcListTxt == <<"l",".","t","x","t">>
\* http://h/l.txt
SrcUrlTxt == <<"h","t","t","p",":","/","/","h","/","l",".","t","x","t">>
\* screens/a.jpg
SrcScreenDir == <<"s","c","r","e","e","n","s","/","a",".","j","p","g">>
\* */v.avi
SrcGlob == <<"*","/","v",".","a","v","i">>

Descriptors == { SrcWebcam0, SrcStreamList, SrcScreen, SrcScreenUpper, SrcScreenStreams,
                 SrcRtsp, SrcRtspMp4, SrcUrlJpg, SrcUrlMp4, SrcUrlUpper,
                 SrcUrlUpperExt, SrcJpg, SrcAvi, SrcDir, SrcListTxt, SrcUrlTxt, SrcScreenDir, SrcGlob }

(***************************************************************************)
(* The frame providers, as far as run() observes them.                     *)
(***************************************************************************)
\* the files a file-sequence descriptor resolves to: a single media file is
\* itself, a directory or list yields its images first and then its videos,
\* a glob can match equally named files of two directories
FileAJpg == <<"d","i","r","/","a",".","j","p","g">>
FileVAvi == <<"d","i","r","/","v",".","a","v","i">>
FileWMp4 == <<"d","i","r","/","w",".","m","p","4">>
FileXAvi == <<"x","/","v",".","a","v","i">>
FileYAvi == <<"y","/","v",".","a","v","i">>
FilesOf(arg) ==
    IF IsFileOf(arg) THEN <<arg>>
    ELSE IF RFind(arg, "*") > 0 THEN <<FileXAvi, FileYAvi>>
    ELSE <<FileAJpg, FileVAvi, FileWMp4>>

\* clean_str: characters outside the safe set become underscores
CleanStr(s) == [k \in DOMAIN s |-> IF s[k] \in {":", "*", "?", "@", "#"} THEN "_" ELSE s[k]]

\* the streams a live descriptor opens: a *.streams list names two, anything
\* else is one stream; the provider reports each under its cleaned name
StreamC == <<"r","t","s","p",":","/","/","h","/","c">>
StreamD == <<"r","t","s","p",":","/","/","h","/","d">>
SourcesOf(arg) ==
    IF EndsWith(arg, DotStreams) THEN <<CleanStr(StreamC), CleanStr(StreamD)>>
    ELSE <<CleanStr(arg)>>

\* the screen capture provider reports the number of the screen as its path
ScreenPath == <<"0">>

\* LoadImages decides image or video by the file's extension
ModeOfFile(f) == IF Tail1(Suffix(f)) \in IMG_FORMATS THEN "image" ELSE "video"

\* width and height of the original frame a source delivers
ShapeOf(p) == IF Tail1(Suffix(p)) \in IMG_FORMATS THEN <<4, 2>> ELSE <<4, 4>>

(***************************************************************************)
(* The model and its detections.                                           *)
(***************************************************************************)
\* model.names of a three-class and of a four-class model
Names3 == <<"goose", "egg", "duck">>
Names4 == <<"goose", "egg", "duck", "swan">>

\* detections as suppression hands them on: class index, confidence (in
\* thousandths) and the box corners x1, y1, x2, y2 in pixels of the original frame
DetGoose1 == [cls |-> 0, conf |-> 912, xyxy |-> <<1, 1, 3, 2>>]
DetGoose2 == [cls |-> 0, conf |-> 806, xyxy |-> <<0, 0, 2, 2>>]
DetEgg == [cls |-> 1, conf |-> 774, xyxy |-> <<2, 0, 4, 1>>]
DetSwan == [cls |-> 3, conf |-> 601, xyxy |-> <<0, 1, 1, 2>>]
Samples == {DetGoose1, DetGoose2, DetEgg, DetSwan}

\* non_max_suppression returns, per image, at most max_det detections of classes
\* the model has, ordered by falling confidence
DetLists(nc, max_det) ==
    { d \in UNION { [1..n -> {x \in Samples : x.cls < nc}] : n \in 0..max_det } :
        \A k \in 1..(Len(d) - 1) : d[k].conf > d[k + 1].conf }

\* a variant that walks the detections first to last
Reversed_Forward(d) == d

\* reversed(det)
Reversed(d) == [k \in 1..Len(d) |-> d[Len(d) + 1 - k]]

\* (det[:, 5] == c).sum()
CountOf(det, c) == Cardinality({k \in DOMAIN det : det[k].cls = c})

\* det[:, 5].unique()
ClassesOf(det) == {det[k].cls : k \in DOMAIN det}

(***************************************************************************)
(* Number formatting.                                                      *)
(***************************************************************************)
\* str(n) of a natural number: its decimal digits
RECURSIVE Dec(_)
Dec(n) == IF n < 10 THEN <<DigitChars[n + 1]>> ELSE Dec(n \div 10) \o <<DigitChars[(n % 10) + 1]>>

\* a Python int as it stands in the counts list
PyInt(n) == [type |-> "int", text |-> Dec(n)]

\* a Python str holding the digits of n
PyStr(n) == [type |-> "str", text |-> Dec(n)]

\* f"{n}": the count formatted into a string
FormatCount(n) == PyStr(n)

\* f"{confidence:.2f}" of a confidence given in thousandths
ConfidenceStr(conf) ==
    LET r == (conf + 5) \div 10
    IN  Dec(r \div 100) \o <<".">> \o <<DigitChars[((r \div 10) % 10) + 1], DigitChars[(r % 10) + 1]>>

RECURSIVE GCD(_, _)
GCD(a, b) == IF b = 0 THEN a ELSE GCD(b, a % b)

\* the quotient n / d as a reduced fraction <<numerator, denominator>>
Rat(n, d) == LET g == GCD(n, d) IN IF g = 0 THEN <<0, 1>> ELSE <<n \div g, d \div g>>

\* xyxy2xywh: centre x, centre y, width, height of a corner box
xyxy2xywh(b) == <<Rat(b[1] + b[3], 2), Rat(b[2] + b[4], 2), Rat(b[3] - b[1], 1), Rat(b[4] - b[2], 1)>>

\* gn = torch.tensor(im0.shape)[[1, 0, 1, 0]]: width, height, width, height
GainOf(shape) == <<shape[1], shape[2], shape[1], shape[2]>>

\* the four numbers of a label line, lines 269-274
CoordsOf(save_format, xyxy, gn) ==
    IF save_format = 0
    THEN LET b == xyxy2xywh(xyxy) IN [k \in 1..4 |-> Rat(b[k][1], b[k][2] * gn[k])]
    ELSE [k \in 1..4 |-> Rat(xyxy[k], gn[k])]

\* line = (cls, *coords, conf) if save_conf else (cls, *coords)
LineOf(save_conf, d, coords) ==
    [cls |-> d.cls, coords |-> coords, conf |-> IF save_conf THEN d.conf ELSE -1]

(***************************************************************************)
(* The CSV sink, lines 218-228.                                            *)
(***************************************************************************)
CsvHeader == <<"Image Name", "Prediction", "Confidence">>
NoFile == [exists |-> FALSE, rows |-> <<>>]

\* csv_path.is_file()
IsFile(f) == f.exists

\* open(csv_path, mode="a"): creates the file when it is missing
OpenAppend(f) == [f EXCEPT !.exists = TRUE]

\* write_to_csv(image_name, prediction, confidence) on the file f
write_to_csv(f, image_name, prediction, confidence) ==
    LET opened == OpenAppend(f)
        headed == IF ~IsFile(opened)
                  THEN [opened EXCEPT !.rows = Append(@, [kind |-> "header", cells |-> CsvHeader])]
                  ELSE opened
    IN  [headed EXCEPT !.rows = Append(@, [kind |-> "data",
                                          cells |-> <<image_name, prediction, confidence>>])]

\* the CSV file after the rows of one image, detections taken last first
RECURSIVE CsvAfter(_, _, _, _)
CsvAfter(f, rdet, image_name, nm) ==
    IF Len(rdet) = 0 THEN f
    ELSE CsvAfter(write_to_csv(f, image_name, nm[Head(rdet).cls + 1], ConfidenceStr(Head(rdet).conf)),
                  Tail(rdet), image_name, nm)

(***************************************************************************)
(* State of one run.                                                       *)
(***************************************************************************)
VARIABLES
    pc,          \* where run() stands: start, classified, loop, infer, persist, done, raised
    descriptor,  \* the source argument as the caller gave it
    opt,         \* the option arguments of run()
    names,       \* model.names
    source,      \* the local variable source
    save_img, webcam, screenshot,
    dataset,     \* the frame provider
    bs, vid_path, vid_writer,
    writers,     \* every cv2.VideoWriter made so far, in order of creation
    seen, gNum,
    cur,         \* the tuple the provider yielded last
    pred,        \* detection lists of the current batch
    i,           \* index of the image being persisted
    csv,         \* predictions.csv
    labels,      \* the lines appended to label files, each with its file
    images,      \* the image files written
    events,      \* downloads, provider constructions, writer opens and releases, in order
    printed,     \* the summaries printed
    result,      \* what the caller of run() receives once run() has ended
    crops,       \* the crop files written
    drawn,       \* the boxes drawn on the image persisted last
    served,      \* the sink calls made for the image persisted last, in call order
    calls,       \* preprocessing, backend and suppression calls made for the last batch pulled
    streak       \* history: per stream index, the output path computed for its last
                 \* video frame and how many frames in a row had that path

vars == <<pc, descriptor, opt, names, source, save_img, webcam, screenshot, dataset, bs,
          vid_path, vid_writer, writers, seen, gNum, cur, pred, i, csv, labels, images,
          events, printed, result, crops, drawn, served, calls, streak>>

\* vid_path and vid_writer entries before anything was stored
NonePath == <<None>>
NoWriter == 0

\* fps the capture handle of a video file reports, and the fallback for streams
CapFps == 25
StreamFps == 30

NoDataset == [kind |-> "none", arg |-> <<>>, items |-> <<>>, closed |-> {}, pos |-> 1,
              frame |-> 0, count |-> 0, yielded |-> 0]
NoFrame == [paths |-> <<>>, mode |-> "none", cap |-> FALSE, frame |-> 0]

\* the option arguments, and xml: whether the weights load as the backend that
\* takes one image per call (model.xml)
DefaultOpt == [nosave |-> FALSE, save_csv |-> FALSE, save_txt |-> FALSE,
               save_format |-> 0, save_conf |-> FALSE, save_crop |-> FALSE,
               view_img |-> FALSE, xml |-> FALSE]

\* what a caller holds of a run that has returned nothing
NoSummary == [imagePath |-> None, counts |-> <<>>]

\* option sets the runs are started with besides the defaults
OptionSets ==
    { [DefaultOpt EXCEPT !.save_csv = TRUE],
      [DefaultOpt EXCEPT !.save_txt = TRUE],
      [DefaultOpt EXCEPT !.save_txt = TRUE, !.save_format = 1, !.save_conf = TRUE],
      [DefaultOpt EXCEPT !.nosave = TRUE, !.save_csv = TRUE],
      [DefaultOpt EXCEPT !.nosave = TRUE],
      [DefaultOpt EXCEPT !.save_crop = TRUE] }

\* CSV, text and crop export together, and the same with no-save
AllSinks == [DefaultOpt EXCEPT !.save_csv = TRUE, !.save_txt = TRUE, !.save_crop = TRUE]
AllSinksNoSave == [AllSinks EXCEPT !.nosave = TRUE]

InitWith(d, o, nm) ==
    /\ pc = "start"
    /\ descriptor = d
    /\ source = d
    /\ opt = o
    /\ names = nm
    /\ save_img = FALSE /\ webcam = FALSE /\ screenshot = FALSE
    /\ dataset = NoDataset
    /\ bs = 1
    /\ vid_path = <<>> /\ vid_writer = <<>>
    /\ writers = <<>>
    /\ seen = 0
    /\ gNum = <<>>
    /\ cur = NoFrame
    /\ pred = <<>>
    /\ i = 0
    /\ csv = NoFile
    /\ labels = <<>>
    /\ images = {}
    /\ events = <<>>
    /\ printed = <<>>
    /\ result = NoSummary
    /\ crops = <<>>
    /\ drawn = <<>>
    /\ served = <<>>
    /\ calls = <<>>
    /\ streak = <<>>

\* every descriptor with the default options, the sinks' options on a
\* directory of images and videos, the one-image-per-call backend on one and
\* on two live streams, and all sinks together on the descriptors that end in
\* .txt and, with no-save, on the directory
Init ==
    \/ \E d \in Descriptors, nm \in {Names3, Names4} : InitWith(d, DefaultOpt, nm)
    \/ \E o \in OptionSets, nm \in {Names3, Names4} : InitWith(SrcDir, o, nm)
    \/ \E d \in {SrcWebcam0, SrcStreamList} : InitWith(d, [DefaultOpt EXCEPT !.xml = TRUE], Names3)
    \/ \E d \in {SrcListTxt, SrcUrlTxt} : InitWith(d, AllSinks, Names3)
    \/ InitWith(SrcDir, AllSinksNoSave, Names3)

Event(op, h, text) == [op |-> op, h |-> h, text |-> text]

(***************************************************************************)
(* Lines 152-159: the flags, and the download of a file URL.               *)
(***************************************************************************)
Classify ==
    /\ pc = "start"
    /\ save_img' = SaveImgOf(opt.nosave, source)
    /\ webcam' = WebcamOf(source)
    /\ screenshot' = ScreenshotOf(source)
    /\ IF NeedsDownload(source)
       THEN /\ events' = Append(events, Event("download", 0, source))
            /\ \E fetched \in BOOLEAN :
                 IF fetched
                 THEN source' = check_file(source) /\ pc' = "classified"
                 ELSE source' = source /\ pc' = "raised"
       ELSE /\ UNCHANGED <<source, events>>
            /\ pc' = "classified"
    /\ UNCHANGED <<descriptor, opt, names, dataset, bs, vid_path, vid_writer, writers, seen,
                   gNum, cur, pred, i, csv, labels, images, printed, result, crops, drawn, served, calls,
                   streak>>

(***************************************************************************)
(* Lines 172-186: the provider, the writer registry, the counters.         *)
(***************************************************************************)
\* a variant that tests the screenshot flag first
ProviderOf_ScreenFirst(w, sc) ==
    IF sc THEN "LoadScreenshots" ELSE IF w THEN "LoadStreams" ELSE "LoadImages"

\* which of the three branches of lines 173-180 is taken
ProviderOf(w, sc) == IF w THEN "LoadStreams" ELSE IF sc THEN "LoadScreenshots" ELSE "LoadImages"

\* a variant with one entry per class of the model
InitialCounts_PerClass == [k \in 1..Len(names) |-> PyInt(0)]

\* gNum=[0,0,0]
InitialCounts == <<PyInt(0), PyInt(0), PyInt(0)>>

Load(kind, items) ==
    /\ pc = "classified"
    /\ ProviderOf(webcam, screenshot) = kind
    /\ dataset' = [kind |-> kind, arg |-> source, items |-> items, closed |-> {}, pos |-> 1,
                   frame |-> 0, count |-> 0, yielded |-> 0]
    /\ events' = Append(events, Event(kind, 0, source))
    /\ bs' = IF kind = "LoadStreams" THEN Len(items) ELSE 1
    /\ vid_path' = [k \in 1..bs' |-> NonePath]
    /\ vid_writer' = [k \in 1..bs' |-> NoWriter]
    /\ seen' = 0
    /\ gNum' = InitialCounts
    /\ streak' = [k \in 1..bs' |-> [path |-> NonePath, n |-> 0]]
    /\ pc' = "loop"
    /\ UNCHANGED <<descriptor, opt, names, source, save_img, webcam, screenshot, writers, cur,
                   pred, i, csv, labels, images, printed, result, crops, drawn, served, calls>>

LoadStreams == Load("LoadStreams", SourcesOf(source))
LoadScreenshots == Load("LoadScreenshots", <<ScreenPath>>)
LoadImages == Load("LoadImages", FilesOf(source))

(***************************************************************************)
(* Line 187: the provider yields the next tuple, or is exhausted.          *)
(***************************************************************************)
fixed == <<descriptor, opt, names, source, save_img, webcam, screenshot, bs>>

\* a file sequence: each image once, each video frame by frame, then the next file
PullImages ==
    /\ pc = "loop"
    /\ dataset.kind = "LoadImages"
    /\ dataset.pos <= Len(dataset.items)
    /\ dataset.count < MaxBatches
    /\ LET f == dataset.items[dataset.pos] IN
       IF ModeOfFile(f) = "image"
       THEN /\ cur' = [paths |-> <<f>>, mode |-> "image", cap |-> FALSE, frame |-> dataset.frame]
            /\ dataset' = [dataset EXCEPT !.pos = @ + 1, !.count = @ + 1, !.yielded = @ + 1]
       ELSE \E last \in BOOLEAN :
            /\ dataset.frame + 1 >= MaxVidFrames => last
            /\ cur' = [paths |-> <<f>>, mode |-> "video", cap |-> TRUE, frame |-> dataset.frame + 1]
            /\ dataset' = [dataset EXCEPT !.pos = IF last THEN @ + 1 ELSE @,
                                          !.frame = IF last THEN 0 ELSE @ + 1,
                                          !.count = @ + 1, !.yielded = @ + 1]
    /\ pc' = "infer"
    /\ UNCHANGED <<fixed, vid_path, vid_writer, writers, seen, gNum, pred, i, csv, labels,
                   images, events, printed, result, crops, drawn, served, calls, streak>>

\* live streams: one frame of every open stream per pull, numbered by the pull
PullStreams ==
    /\ pc = "loop"
    /\ dataset.kind = "LoadStreams"
    /\ Len(dataset.items) > 0
    /\ dataset.count < MaxBatches
    /\ cur' = [paths |-> dataset.items, mode |-> "stream", cap |-> FALSE, frame |-> dataset.count]
    /\ dataset' = [dataset EXCEPT !.count = @ + 1, !.yielded = @ + Len(dataset.items)]
    /\ pc' = "infer"
    /\ UNCHANGED <<fixed, vid_path, vid_writer, writers, seen, gNum, pred, i, csv, labels,
                   images, events, printed, result, crops, drawn, served, calls, streak>>

\* screen capture: the screen number as path, frames numbered from one
PullScreenshots ==
    /\ pc = "loop"
    /\ dataset.kind = "LoadScreenshots"
    /\ dataset.count < MaxBatches
    /\ cur' = [paths |-> dataset.items, mode |-> "stream", cap |-> FALSE, frame |-> dataset.frame + 1]
    /\ dataset' = [dataset EXCEPT !.frame = @ + 1, !.count = @ + 1, !.yielded = @ + 1]
    /\ pc' = "infer"
    /\ UNCHANGED <<fixed, vid_path, vid_writer, writers, seen, gNum, pred, i, csv, labels,
                   images, events, printed, result, crops, drawn, served, calls, streak>>

\* s without its k-th element
Without(s, k) == SubSeq(s, 1, k - 1) \o SubSeq(s, k + 1, Len(s))

\* a live stream disconnects: it is dropped with a warning, the other streams
\* go on, and later batches hold the streams that are still open, in order
Disconnect ==
    /\ pc = "loop"
    /\ dataset.kind = "LoadStreams"
    /\ \E k \in DOMAIN dataset.items :
          dataset' = [dataset EXCEPT !.items = Without(@, k),
                                     !.closed = @ \cup {dataset.items[k]}]
    /\ UNCHANGED <<pc, fixed, vid_path, vid_writer, writers, seen, gNum, cur, pred, i, csv,
                   labels, images, events, printed, result, crops, drawn, served, calls, streak>>

\* the provider raises StopIteration: the files are used up, every stream has
\* closed, or the model's cut-off is reached
Exhausted ==
    \/ dataset.kind = "LoadImages" /\ dataset.pos > Len(dataset.items)
    \/ dataset.kind = "LoadStreams" /\ Len(dataset.items) = 0
    \/ dataset.count >= MaxBatches

(***************************************************************************)
(* Lines 188-212: preprocessing, the backend, suppression.                 *)
(***************************************************************************)
\* the positions 1..n of a batch of n images
Positions(n) == [k \in 1..n |-> k]

\* what each backend call is given: with the one-image-per-call backend and a
\* batch of more than one image the batch is cut into its images, otherwise
\* the whole batch goes in one call
ChunksOf(xml, B) ==
    IF xml /\ B > 1 THEN [k \in 1..B |-> <<k>>] ELSE <<Positions(B)>>

\* torch.cat((pred, out)) with a swapped argument order
Concat_Prepend(acc, out) == out \o acc

\* torch.cat((pred, out)): the output of a call goes after what is there
Concat(acc, out) == acc \o out

\* the images of the batch in the order of the rows handed to suppression
RECURSIVE UnifiedBatch(_)
UnifiedBatch(chunks) ==
    IF Len(chunks) = 0 THEN <<>>
    ELSE Concat(UnifiedBatch(SubSeq(chunks, 1, Len(chunks) - 1)), chunks[Len(chunks)])

\* suppression told to keep as many detections as it keeps by default
MaxDetArg_Default(max_det) == max_det + 1

\* the cap on detections per image that suppression is called with
MaxDetArg(max_det) == max_det

\* an exception of the loop body handled by going on to the next frame
AfterFailure_SkipFrame == "loop"

\* where an exception raised in the loop body leaves the run: nothing in
\* run() catches it
AfterFailure == "raised"

Call(fn, imgs, ok) == [fn |-> fn, imgs |-> imgs, ok |-> ok]

\* preprocessing, every backend call and suppression return: detection list j
\* is what suppression makes of row j of what it was handed
Infer ==
    /\ pc = "infer"
    /\ LET B == Len(cur.paths)
           chunks == ChunksOf(opt.xml, B)
           rows == UnifiedBatch(chunks)
       IN  /\ \E raw \in [1..B -> DetLists(Len(names), MaxDetArg(MaxDets))] :
                 pred' = [j \in 1..B |-> raw[rows[j]]]
           /\ calls' = [k \in 1..(Len(chunks) + 1) |->
                           IF k = 1 THEN Call("preprocess", Positions(B), TRUE)
                           ELSE Call("model", chunks[k - 1], TRUE)]
                        \o <<Call("nms", rows, TRUE)>>
    /\ i' = 0
    /\ pc' = "persist"
    /\ UNCHANGED <<fixed, dataset, vid_path, vid_writer, writers, seen, gNum, cur, csv, labels,
                   images, events, printed, result, crops, drawn, served, streak>>

\* preprocessing (n = 0) or the n-th backend call of the batch raises
InferRaises ==
    /\ pc = "infer"
    /\ LET B == Len(cur.paths)
           chunks == ChunksOf(opt.xml, B)
       IN  \E n \in 0..Len(chunks) :
             calls' = IF n = 0 THEN <<Call("preprocess", Positions(B), FALSE)>>
                      ELSE [k \in 1..(n + 1) |->
                              IF k = 1 THEN Call("preprocess", Positions(B), TRUE)
                              ELSE Call("model", chunks[k - 1], k - 1 < n)]
    /\ pc' = AfterFailure
    /\ UNCHANGED <<fixed, dataset, vid_path, vid_writer, writers, seen, gNum, cur, pred, i, csv,
                   labels, images, events, printed, result, crops, drawn, served, streak>>

(***************************************************************************)
(* Lines 246-254: the class counts of one image.                           *)
(***************************************************************************)
\* gNum[int(c)] = f"{n}" raises IndexError for a class index the list lacks
CountRaises(g, det) == \E c \in ClassesOf(det) : c >= Len(g)

\* a variant that starts every image from a zeroed list
CountsAfter_Reset(g, det) ==
    [k \in DOMAIN g |-> IF (k - 1) \in ClassesOf(det) THEN FormatCount(CountOf(det, k - 1)) ELSE PyInt(0)]

\* the list after the loop over det[:, 5].unique(), which is sorted: every
\* present class the list has an entry for is assigned before a raise
CountsAfter(g, det) ==
    [k \in DOMAIN g |-> IF (k - 1) \in ClassesOf(det) THEN FormatCount(CountOf(det, k - 1)) ELSE g[k]]

(***************************************************************************)
(* Lines 239-241 and 268-277: paths and label lines of one image.          *)
(***************************************************************************)
\* save_path = str(save_dir / p.name), relative to save_dir
SavePathOf(p) == Name(p)

\* a variant that names the label file by the stem alone
TxtPathOf_NoFrame(p, mode, frame) == Stem(p)

\* txt_path, relative to save_dir / "labels"
TxtPathOf(p, mode, frame) == Stem(p) \o (IF mode = "image" THEN <<>> ELSE <<"_">> \o Dec(frame))

\* the lines one image appends to its label file, detections taken last first
LabelLines(o, det, p, mode, frame) ==
    LET rd == Reversed(det) IN
    [k \in 1..Len(rd) |->
        [file |-> TxtPathOf(p, mode, frame),
         line |-> LineOf(o.save_conf, rd[k], CoordsOf(o.save_format, rd[k].xyxy, GainOf(ShapeOf(p))))]]

(***************************************************************************)
(* Lines 301-313: the video writer registry.                               *)
(***************************************************************************)
\* a variant that takes every frame for the first of a new video
IsNewVideo_Always(stored, save_path) == TRUE

\* line 301: a new video when the stored path differs from the computed one
IsNewVideo(stored, save_path) == stored # save_path

\* a variant that stores the path with the forced suffix
StoredPath_Suffixed(save_path) == WithSuffix(save_path, DotMp4)

\* line 302: the path stored is the computed one, before the suffix is forced
StoredPath(save_path) == save_path

\* a variant that leaves the previous writer open
ReleaseWriter_Skipped(reg, w) == reg

\* lines 303-304: release the previous writer of the index, if there is one
ReleaseWriter(reg, w) ==
    IF w # NoWriter
    THEN [writers |-> [reg.writers EXCEPT ![w].open = FALSE],
          events |-> Append(reg.events, Event("release", w, <<>>))]
    ELSE reg

\* lines 305-312: fps and size from the capture handle or the stream fallback,
\* the suffix forced to .mp4, a new writer made
OpenWriter(reg, idx, save_path, cap, shape) ==
    LET path == WithSuffix(save_path, DotMp4) IN
    [writers |-> Append(reg.writers, [idx |-> idx, path |-> path,
                                      fps |-> IF cap THEN CapFps ELSE StreamFps,
                                      size |-> shape, open |-> TRUE, frames |-> 0, late |-> 0]),
     events |-> Append(reg.events, Event("open", Len(reg.writers) + 1, path))]

\* a variant that does not append the frame
WriteFrame_Dropped(reg, w) == reg

\* line 313: vid_writer[i].write(im0); a released writer drops the frame,
\* which is counted as a late write
WriteFrame(reg, w) ==
    [reg EXCEPT !.writers = IF reg.writers[w].open THEN [@ EXCEPT ![w].frames = @ + 1]
                            ELSE [@ EXCEPT ![w].late = @ + 1]]

\* lines 301-313 for stream index idx (counted from one)
SaveVideo(idx, save_path, cap, shape) ==
    LET reg0 == [writers |-> writers, events |-> events]
        new == IsNewVideo(vid_path[idx], save_path)
        reg1 == IF new
                THEN OpenWriter(ReleaseWriter(reg0, vid_writer[idx]), idx, save_path, cap, shape)
                ELSE reg0
        w == IF new THEN Len(reg1.writers) ELSE vid_writer[idx]
        reg2 == WriteFrame(reg1, w)
    IN  [vid_path |-> IF new THEN [vid_path EXCEPT ![idx] = StoredPath(save_path)] ELSE vid_path,
         vid_writer |-> IF new THEN [vid_writer EXCEPT ![idx] = w] ELSE vid_writer,
         writers |-> reg2.writers,
         events |-> reg2.events]

(***************************************************************************)
(* Lines 231-313: the persistence step of image i of the batch.            *)
(***************************************************************************)
\* lines 283-284: one crop per detection, filed under its class name and the
\* stem of the image
CropsOf(rdet, p, nm) ==
    [k \in 1..Len(rdet) |-> [dir |-> nm[rdet[k].cls + 1], stem |-> Stem(p), xyxy |-> rdet[k].xyxy]]

\* a variant that draws only on an image that is going to be saved
BoxesOf_OnlyWhenSaving(rdet) ==
    IF save_img THEN [k \in 1..Len(rdet) |-> [xyxy |-> rdet[k].xyxy, cls |-> rdet[k].cls]] ELSE <<>>

\* lines 279-282: one box drawn per detection, on a fresh annotator
BoxesOf(rdet) == [k \in 1..Len(rdet) |-> [xyxy |-> rdet[k].xyxy, cls |-> rdet[k].cls]]

\* lines 265-284: the sinks served for one detection, in the order of the body
\* of the loop
Serve(o, si, d) ==
    (IF o.save_csv THEN <<[sink |-> "csv", det |-> d]>> ELSE <<>>)
        \o (IF o.save_txt THEN <<[sink |-> "txt", det |-> d]>> ELSE <<>>)
        \o (IF si \/ o.save_crop \/ o.view_img THEN <<[sink |-> "box", det |-> d]>> ELSE <<>>)
        \o (IF o.save_crop THEN <<[sink |-> "crop", det |-> d]>> ELSE <<>>)

\* lines 258-284: the loop body run for one detection after the other
RECURSIVE ServedOf(_, _, _)
ServedOf(o, si, rdet) ==
    IF Len(rdet) = 0 THEN <<>> ELSE Serve(o, si, Head(rdet)) \o ServedOf(o, si, Tail(rdet))

\* a variant that counts a batch once, at its first image
SeenAfter_PerBatch(n, idx) == IF idx = 0 THEN n + 1 ELSE n

\* line 232: seen += 1, for the image at position idx of the batch
SeenAfter(n, idx) == n + 1

Persist ==
    /\ pc = "persist"
    /\ LET det == pred[i + 1]
           p == cur.paths[i + 1]
           save_path == SavePathOf(p)
           video == SaveVideo(i + 1, save_path, cur.cap, ShapeOf(p))
       IN
       /\ seen' = SeenAfter(seen, i)
       /\ gNum' = CountsAfter(gNum, det)
       /\ IF CountRaises(gNum, det)
          THEN /\ pc' = "raised"
               /\ UNCHANGED <<i, csv, labels, crops, drawn, served, images, vid_path, vid_writer, writers,
                              events, streak>>
          ELSE /\ csv' = IF opt.save_csv THEN CsvAfter(csv, Reversed(det), Name(p), names) ELSE csv
               /\ labels' = IF opt.save_txt
                            THEN labels \o LabelLines(opt, det, p, cur.mode, cur.frame)
                            ELSE labels
               /\ drawn' = IF save_img \/ opt.save_crop \/ opt.view_img
                           THEN BoxesOf(Reversed(det))
                           ELSE <<>>
               /\ served' = ServedOf(opt, save_img, Reversed(det))
               /\ crops' = IF opt.save_crop THEN crops \o CropsOf(Reversed(det), p, names) ELSE crops
               /\ images' = IF save_img /\ cur.mode = "image" THEN images \cup {save_path} ELSE images
               /\ IF save_img /\ cur.mode # "image"
                  THEN /\ vid_path' = video.vid_path
                       /\ vid_writer' = video.vid_writer
                       /\ writers' = video.writers
                       /\ events' = video.events
                  ELSE UNCHANGED <<vid_path, vid_writer, writers, events>>
               /\ streak' = IF cur.mode = "image" THEN streak
                            ELSE [streak EXCEPT ![i + 1] =
                                    [path |-> save_path,
                                     n |-> IF @.path = save_path THEN @.n + 1 ELSE 1]]
               /\ i' = i + 1
               /\ pc' = IF i + 1 < Len(pred) THEN "persist" ELSE "loop"
    /\ UNCHANGED <<fixed, dataset, cur, pred, printed, result, calls>>

(***************************************************************************)
(* Lines 320-333: after the loop, the summary.                             *)
(***************************************************************************)
\* json.dumps({'imagePath': save_dir_abs, 'counts': gNum}), printed
SummaryOf(g) == [imagePath |-> "save_dir_abs", counts |-> g]

\* run() ends after the print, without a return statement: the caller's
\* result = detect_goose(...) is None
ReturnOfRun == NoSummary

\* line 320 divides by seen: a run that saw no image raises ZeroDivisionError
Finish ==
    /\ pc = "loop"
    /\ Exhausted
    /\ IF seen = 0
       THEN pc' = "raised" /\ UNCHANGED <<printed, result>>
       ELSE pc' = "done" /\ printed' = Append(printed, SummaryOf(gNum)) /\ result' = ReturnOfRun
    /\ UNCHANGED <<fixed, dataset, vid_path, vid_writer, writers, seen, gNum, cur, pred, i, csv,
                   labels, images, events, crops, drawn, served, calls, streak>>

Next ==
    \/ Classify
    \/ LoadStreams
    \/ LoadScreenshots
    \/ LoadImages
    \/ PullImages
    \/ PullStreams
    \/ PullScreenshots
    \/ Disconnect
    \/ Infer
    \/ InferRaises
    \/ Persist
    \/ Finish

Spec == Init /\ [][Next]_vars

(***************************************************************************)
(* Properties.                                                             *)
(***************************************************************************)
Providers == {"LoadStreams", "LoadScreenshots", "LoadImages"}
EventsOf(ops) == SelectSeq(events, LAMBDA e : e.op \in ops)
HeaderRows == {k \in DOMAIN csv.rows : csv.rows[k].kind = "header"}

\* C1: with CSV export on and no predictions.csv at the start, the file, once
\* written, starts with the header row, and that is its only header row.
C1_CsvHeaderFirst ==
    (opt.save_csv /\ csv.exists) => HeaderRows = {1}

\* C1, the case: CSV export on and at least two calls of write_to_csv made.
C1_Written == opt.save_csv /\ Len(csv.rows) >= 2

\* C2: when run() has printed its summary, no video writer made during the
\* run is still open.
C2_NoWriterOpenAtEnd ==
    pc = "done" => \A w \in DOMAIN writers : ~writers[w].open

\* C3: while the output path computed for stream index k stays the same for N
\* frames in a row, the writer stored for k is one open writer that was made at
\* the first of those frames and has received all N of them; it is opened at
\* the path with the .mp4 suffix while the path stored is the one computed.
C3_OneWriterPerUnchangedPath ==
    \A k \in DOMAIN streak :
        (save_img /\ streak[k].n >= 1) =>
            /\ vid_writer[k] # NoWriter
            /\ vid_path[k] = streak[k].path
            /\ LET w == writers[vid_writer[k]] IN
               /\ w.open
               /\ w.idx = k
               /\ w.frames = streak[k].n
               /\ w.path = WithSuffix(streak[k].path, DotMp4)

\* C3, the case: two frames in a row of a source whose name does not end in .mp4.
C3_TwoFramesSamePath ==
    \E k \in DOMAIN streak :
        save_img /\ streak[k].n >= 2 /\ Suffix(streak[k].path) # DotMp4

\* C4: a persistence step that finds the computed path of its stream index k
\* different from the stored one while a writer is open for k releases that
\* writer and then opens the new one, and stores the computed path; no
\* persistence step touches the stored path or the writer of another index.
C4_PathChange ==
    [][ (pc = "persist" /\ pc' # "raised") =>
          LET k == i + 1
              sp == SavePathOf(cur.paths[k])
          IN  /\ \A j \in DOMAIN vid_path :
                    j # k => /\ vid_path'[j] = vid_path[j]
                             /\ vid_writer'[j] = vid_writer[j]
                             /\ vid_writer[j] # NoWriter =>
                                    writers'[vid_writer[j]] = writers[vid_writer[j]]
              /\ (save_img /\ cur.mode # "image" /\ vid_path[k] # sp /\ vid_writer[k] # NoWriter) =>
                    /\ ~writers'[vid_writer[k]].open
                    /\ Len(writers') = Len(writers) + 1
                    /\ vid_writer'[k] = Len(writers')
                    /\ writers'[vid_writer'[k]].open
                    /\ writers'[vid_writer'[k]].idx = k
                    /\ events' = events \o << Event("release", vid_writer[k], <<>>),
                                              Event("open", vid_writer'[k], WithSuffix(sp, DotMp4)) >>
                    /\ vid_path'[k] = sp
      ]_vars

\* C4, the case: a writer of some index was released and a later writer of
\* the same index is open.
C4_PathChanged ==
    \E a, b \in DOMAIN writers :
        a < b /\ writers[a].idx = writers[b].idx /\ ~writers[a].open /\ writers[b].open

\* C5: after the persistence step of an image, the table entry of every class
\* the image has a detection of is the number of detections of that class in
\* this image alone, whatever the entry was before.
C5_LastWriteWins ==
    [][ (pc = "persist" /\ pc' # "raised") =>
          \A c \in ClassesOf(pred[i + 1]) : gNum'[c + 1] = PyInt(CountOf(pred[i + 1], c))
      ]_vars

\* C6: the counts list has one entry per class of the model, the summary
\* carries that list, and no detection of a class of the model makes the
\* persistence step raise.
C6_SummaryShape ==
    /\ pc \in {"loop", "infer", "persist", "done"} => Len(gNum) = Len(names)
    /\ \A k \in DOMAIN printed :
          /\ Len(printed[k].counts) = Len(names)
          /\ printed[k].counts = gNum
    /\ ~(pc = "raised" /\ seen > 0)

\* C7: a run over a single image prints counts whose entry for class c is the
\* integer number of detections of c in that image, 0 for a class without one.
C7_SingleImageCounts ==
    (pc = "done" /\ seen = 1) =>
        \A k \in DOMAIN printed[1].counts :
            printed[1].counts[k] = PyInt(CountOf(pred[1], k - 1))

\* descriptors of the model by the mode the priority rules give them
WebcamDescriptors == {SrcWebcam0, SrcStreamList, SrcScreenStreams, SrcRtsp, SrcUrlUpper,
                      SrcUrlUpperExt, SrcUrlTxt}
ScreenDescriptors == {SrcScreen, SrcScreenUpper, SrcScreenDir}

C10_LabelCoordinates ==
    [][ (pc = "persist" /\ pc' # "raised" /\ opt.save_txt) =>
          LET rd == Reversed(pred[i + 1])
              wh == ShapeOf(cur.paths[i + 1])
          IN  /\ Len(labels') = Len(labels) + Len(rd)
              /\ \A k \in DOMAIN rd :
                    LET b == rd[k].xyxy IN
                    labels'[Len(labels) + k].line.coords =
                        IF opt.save_format = 0
                        THEN << Rat(b[1] + b[3], 2 * wh[1]), Rat(b[2] + b[4], 2 * wh[2]),
                                Rat(b[3] - b[1], wh[1]), Rat(b[4] - b[2], wh[2]) >>
                        ELSE << Rat(b[1], 1), Rat(b[2], 1), Rat(b[3], 1), Rat(b[4], 1) >>
      ]_vars

\* the table that lines 246-254 leave for the old table g and the detection
\* list det, written from det alone
TableFrom(g, det) ==
    [k \in DOMAIN g |->
        LET n == Cardinality({j \in DOMAIN det : det[j].cls = k - 1})
        IN  IF n = 0 THEN g[k] ELSE [type |-> "str", text |-> Dec(n)]]

\* C11: a run with no-save set writes no annotated image and opens no video
\* writer (and no file at all when no other sink is switched on), while the
\* table after every image, the frames-seen counter and the summary are the
\* same function of the frames and detections as in the run that saves: none
\* of them reads the save flag.
C11_NoSaveSameCounts ==
    /\ [](opt.nosave => (~save_img /\ images = {} /\ writers = <<>> /\ EventsOf({"open"}) = <<>>))
    /\ []((opt.nosave /\ ~opt.save_csv /\ ~opt.save_txt /\ ~opt.save_crop) =>
            (~csv.exists /\ labels = <<>> /\ crops = <<>>))
    /\ [][pc = "persist" => (seen' = seen + 1 /\ gNum' = TableFrom(gNum, pred[i + 1]))]_vars
    /\ [](pc = "done" => printed = <<[imagePath |-> "save_dir_abs", counts |-> gNum]>>)

\* C11, the case: a run with no-save set went through an image and video
\* frames, counted detections and printed its summary.
C11_NoSaveRunEnded ==
    /\ opt.nosave
    /\ pc = "done"
    /\ seen >= 3
    /\ cur.mode = "video"
    /\ \E k \in DOMAIN gNum : gNum[k].type = "str"

\* C12: a run that ends normally has emitted the summary exactly once, after
\* the provider was exhausted and the last image of the last batch was
\* persisted, with the table as that image left it, and that summary is what
\* the caller of run() receives; before the end nothing is emitted.
C12_SummaryOnceAtEnd ==
    /\ pc # "done" => printed = <<>>
    /\ pc = "done" =>
          /\ Len(printed) = 1
          /\ Exhausted
          /\ i = Len(pred)
          /\ printed[1].counts = gNum
          /\ result = printed[1]

\* C12, the case: a run of two images or more has ended normally.
C12_RunEnded == pc = "done" /\ seen >= 2

\* C13: an image whose detection list is empty is persisted like any other:
\* the step raises nothing, counts the image as seen, writes the annotated
\* image for an image source or appends one frame to the open writer of the
\* index for a video or stream source, and goes on to the next image or the
\* next pull; it adds no CSV row, no label line and no crop.
C13_EmptyDetections ==
    [][ (pc = "persist" /\ pred[i + 1] = <<>>) =>
          /\ pc' \in {"persist", "loop"}
          /\ i' = i + 1
          /\ seen' = seen + 1
          /\ csv' = csv /\ labels' = labels /\ crops' = crops
          /\ (save_img /\ cur.mode = "image") => Name(cur.paths[i + 1]) \in images'
          /\ (save_img /\ cur.mode # "image") =>
                LET w == vid_writer'[i + 1] IN
                /\ w \in DOMAIN writers'
                /\ writers'[w].open
                /\ writers'[w].frames = IF w \in DOMAIN writers THEN writers[w].frames + 1 ELSE 1
      ]_vars

\* C13, the case: the second frame of a saved video or stream had no
\* detection and has been persisted.
C13_EmptyFramePersisted ==
    /\ save_img
    /\ cur.mode # "image"
    /\ pc \in {"persist", "loop"}
    /\ i >= 1
    /\ i <= Len(pred)
    /\ pred[i] = <<>>
    /\ seen = 2

\* a call made for the last batch pulled has raised
Failed == \E k \in DOMAIN calls : ~calls[k].ok

\* C14: when preprocessing or a backend call of a pulled frame raises, the
\* run is aborted: the failing step persists nothing and changes no file and
\* no count, no step follows it (no later frame is pulled or persisted) and
\* no summary is emitted.
C14_FailureAborts ==
    /\ [](Failed => (pc = "raised" /\ printed = <<>> /\ result = NoSummary))
    /\ [][~Failed]_vars
    /\ [][Failed' => UNCHANGED <<dataset, vid_path, vid_writer, writers, seen, gNum, cur, pred,
                                 i, csv, labels, crops, drawn, served, images, events, printed, result>>]_vars

\* C14, the case: a call raised for a frame after two earlier frames were
\* persisted and saved.
C14_FailedAfterFrames ==
    /\ Failed
    /\ seen = 2
    /\ images # {}
    /\ writers # <<>>

\* of two live streams the second has disconnected, the first is open and has
\* its writer
SecondStreamDropped ==
    /\ dataset.kind = "LoadStreams"
    /\ bs = 2
    /\ save_img
    /\ dataset.closed = {CleanStr(StreamD)}
    /\ dataset.items = <<CleanStr(StreamC)>>
    /\ vid_writer[1] # NoWriter

\* C15: with two live streams, the disconnect of the second raises nothing
\* and touches no writer; afterwards every persisted frame is a frame of the
\* first stream and is appended to the writer the first stream already had,
\* which is neither released nor reopened, and no writer is opened for the
\* index of the second stream.
C15_SecondStreamDisconnects ==
    /\ [][ dataset'.closed # dataset.closed =>
             (pc' = pc /\ UNCHANGED <<vid_path, vid_writer, writers, events, seen, gNum>>) ]_vars
    /\ [][ SecondStreamDropped =>
             /\ vid_writer' = vid_writer
             /\ Len(writers') = Len(writers)
             /\ writers'[vid_writer[1]].open
             /\ EventsOf({"open", "release"})' = EventsOf({"open", "release"})
             /\ (pc = "persist" /\ pc' # "raised") =>
                   /\ i = 0 /\ Len(pred) = 1
                   /\ cur.paths[1] = CleanStr(StreamC)
                   /\ writers'[vid_writer[1]].frames = writers[vid_writer[1]].frames + 1
                   /\ \A w \in DOMAIN writers : w # vid_writer[1] => writers'[w] = writers[w]
         ]_vars

\* C15, the case: both streams were saved for one frame, the second
\* disconnected, and a further frame of the first was persisted.
C15_FirstStreamGoesOn ==
    /\ SecondStreamDropped
    /\ pc = "loop"
    /\ seen = 3
    /\ Len(writers) = 2
    /\ writers[vid_writer[1]].frames = 2

CallsTo(fn) == SelectSeq(calls, LAMBDA c : c.fn = fn)

\* C16: for every batch that got through inference, with the
\* one-image-per-call backend and a batch of B > 1 images the backend was
\* called exactly B times, call k on image k alone, and suppression once, on
\* the outputs joined in the order of the batch, so that detection list k is
\* that of image k; with any other backend, or B = 1, the backend was called
\* exactly once, on the whole batch.
C16_BackendCalls ==
    (pc # "infer" /\ calls # <<>> /\ \A k \in DOMAIN calls : calls[k].ok) =>
        LET B == Len(cur.paths) IN
        /\ Len(CallsTo("nms")) = 1
        /\ calls[Len(calls)].fn = "nms"
        /\ calls[Len(calls)].imgs = [k \in 1..B |-> k]
        /\ Len(pred) = B
        /\ IF opt.xml /\ B > 1
           THEN /\ Len(CallsTo("model")) = B
                /\ \A k \in 1..B : CallsTo("model")[k].imgs = <<k>>
           ELSE /\ Len(CallsTo("model")) = 1
                /\ CallsTo("model")[1].imgs = [k \in 1..B |-> k]

\* C16, the case: a batch of two stream frames went through the
\* one-image-per-call backend and suppression.
C16_ChunkedBatch ==
    /\ opt.xml
    /\ Len(cur.paths) = 2
    /\ pc = "persist"
    /\ Len(CallsTo("model")) = 2

\* C17: with saving on, a frame of an image source is written as the image
\* file named like the source and opens or touches no video writer; a frame
\* of a video or stream source is written to no image file but through the
\* writer of its index, which was opened at <source stem>.mp4 whatever the
\* suffix of the source. Label lines go to labels/<stem> for an image source
\* and to labels/<stem>_<frame number> otherwise.
C17_SinkRouting ==
    [][ (pc = "persist" /\ pc' # "raised") =>
          LET p == cur.paths[i + 1] IN
          /\ (save_img /\ cur.mode = "image") =>
                (images' = images \cup {Name(p)} /\ writers' = writers /\ vid_writer' = vid_writer)
          /\ (save_img /\ cur.mode # "image") =>
                LET w == vid_writer'[i + 1] IN
                /\ images' = images
                /\ w \in DOMAIN writers'
                /\ writers'[w].path = Stem(p) \o DotMp4
                /\ writers'[w].frames >= 1
                /\ \A v \in DOMAIN writers : v # w => writers'[v].frames = writers[v].frames
          /\ opt.save_txt =>
                \A k \in (Len(labels) + 1)..Len(labels') :
                    labels'[k].file = IF cur.mode = "image" THEN Stem(p)
                                      ELSE Stem(p) \o <<"_">> \o Dec(cur.frame)
      ]_vars

\* C17, the case: the image a.jpg and the first frame of the video v.avi were
\* saved with their label lines.
C17_ImageAndVideoSaved ==
    /\ opt.save_txt
    /\ <<"a", ".", "j", "p", "g">> \in images
    /\ \E w \in DOMAIN writers : writers[w].path = <<"v", ".", "m", "p", "4">> /\ writers[w].frames = 1
    /\ \E k \in DOMAIN labels : labels[k].file = <<"a">>
    /\ \E k \in DOMAIN labels : labels[k].file = <<"v", "_", "1">>

\* C18: every detection list that reaches persistence has at most max-det
\* entries, so that the persistence step of an image adds at most max-det CSV
\* rows, label lines and crops and draws at most max-det boxes.
C18_DetectionBound ==
    /\ [](\A k \in DOMAIN pred : Len(pred[k]) <= MaxDets)
    /\ [][ pc = "persist" =>
             /\ Len(csv'.rows) - Len(csv.rows) <= MaxDets
             /\ Len(labels') - Len(labels) <= MaxDets
             /\ Len(crops') - Len(crops) <= MaxDets
             /\ Len(drawn') <= MaxDets
         ]_vars

\* C18, the case: an image with as many detections as the cap allows was
\* persisted with CSV export on.
C18_FullListPersisted ==
    /\ opt.save_csv
    /\ i >= 1
    /\ i <= Len(pred)
    /\ Len(pred[i]) = MaxDets
    /\ Len(csv.rows) >= MaxDets
    /\ Len(drawn) = MaxDets

\* the open writers of stream index k
OpenWritersOf(k) == {w \in DOMAIN writers : writers[w].idx = k /\ writers[w].open}

\* C19: with saving on, in every reachable state each stream index has at
\* most one open writer; once a frame of index k has been persisted, exactly
\* one writer is open for k, the one stored for k, up to the end of the run;
\* and no writer has been written to after it was released.
C19_OneOpenWriterPerIndex ==
    save_img =>
        /\ \A k \in DOMAIN vid_writer :
              /\ Cardinality(OpenWritersOf(k)) <= 1
              /\ streak[k].n >= 1 => OpenWritersOf(k) = {vid_writer[k]}
              /\ streak[k].n = 0 => OpenWritersOf(k) = {}
        /\ \A w \in DOMAIN writers : writers[w].late = 0

\* C19, the case: the video at an index changed, so that a released writer
\* and an open one with frames exist for the same index.
C19_WriterReplaced ==
    \E v, w \in DOMAIN writers :
        /\ writers[v].idx = writers[w].idx
        /\ ~writers[v].open /\ writers[v].frames >= 1
        /\ writers[w].open /\ writers[w].frames >= 1

\* C20: the persistence step of an image leaves the table entry of every
\* class without a detection in that image as it was, neither reset nor
\* removed, and an image without detections leaves the whole table as it
\* was; the summary therefore reports, for a class absent from the last
\* image, the entry an earlier image left.
C20_AbsentClassesKept ==
    [][ pc = "persist" =>
          LET det == pred[i + 1] IN
          /\ DOMAIN gNum' = DOMAIN gNum
          /\ \A k \in DOMAIN gNum :
                (\A j \in DOMAIN det : det[j].cls # k - 1) => gNum'[k] = gNum[k]
          /\ det = <<>> => gNum' = gNum
      ]_vars

\* C20, the case: the run ended on an image without detections and its
\* summary reports the two geese of an earlier image.
C20_StaleCountReported ==
    /\ pc = "done"
    /\ seen >= 2
    /\ pred[Len(pred)] = <<>>
    /\ printed[1].counts[1] = [type |-> "str", text |-> <<"2">>]

\* C21: for a batch of B images the persistence step runs for the positions
\* 0, 1, ..., B-1 in that order, each step ending before the next starts, and
\* the next batch is pulled only after step B-1; every step raises seen by
\* one, so that between batches and at the end of the run seen is the number
\* of images of all batches pulled.
C21_PersistenceOrder ==
    /\ [](pc = "persist" =>
            /\ Len(pred) = Len(cur.paths)
            /\ i < Len(pred)
            /\ seen = dataset.yielded - Len(pred) + i)
    /\ [](pc \in {"loop", "done"} => (i = Len(pred) /\ seen = dataset.yielded))
    /\ [][ (pc = "infer" /\ pc' = "persist") => i' = 0 ]_vars
    /\ [][ (pc = "persist" /\ pc' # "raised") =>
             /\ i' = i + 1
             /\ seen' = seen + 1
             /\ UNCHANGED <<dataset, cur, pred>>
             /\ pc' = IF i + 1 < Len(pred) THEN "persist" ELSE "loop"
         ]_vars
    /\ [][ dataset'.yielded # dataset.yielded => (pc = "loop" /\ i = Len(pred)) ]_vars

\* C21, the case: a run over two live streams has ended after batches of two,
\* two and one image.
C21_TwoStreamRunEnded ==
    /\ pc = "done"
    /\ bs = 2
    /\ dataset.count = 3
    /\ seen = 5

\* the position in the detection list det of the detection d
PositionIn(det, d) == CHOOSE k \in DOMAIN det : det[k] = d

\* C22: the persistence step of an image takes its detections last first:
\* the CSV rows, the label lines and the boxes drawn for the image are, each,
\* those of the suppressed detection list in exactly the reverse order, and
\* in the order of the sink calls every call for a detection comes before
\* every call for the detection taken next, each enabled sink being called
\* once per detection.
C22_ReverseOrder ==
    [][ (pc = "persist" /\ pc' # "raised") =>
          LET det == pred[i + 1]
              n == Len(det)
              boxes == save_img \/ opt.save_crop \/ opt.view_img
              sinks == (IF opt.save_csv THEN {"csv"} ELSE {}) \cup (IF opt.save_txt THEN {"txt"} ELSE {})
                       \cup (IF boxes THEN {"box"} ELSE {}) \cup (IF opt.save_crop THEN {"crop"} ELSE {})
          IN  /\ opt.save_csv =>
                    /\ Len(csv'.rows) = Len(csv.rows) + n
                    /\ \A k \in 1..n :
                          csv'.rows[Len(csv.rows) + k].cells =
                              << Name(cur.paths[i + 1]), names[det[n + 1 - k].cls + 1],
                                 ConfidenceStr(det[n + 1 - k].conf) >>
              /\ opt.save_txt =>
                    /\ Len(labels') = Len(labels) + n
                    /\ \A k \in 1..n : labels'[Len(labels) + k].line.cls = det[n + 1 - k].cls
              /\ boxes =>
                    /\ Len(drawn') = n
                    /\ \A k \in 1..n : drawn'[k].xyxy = det[n + 1 - k].xyxy
              /\ Len(served') = n * Cardinality(sinks)
              /\ \A k \in 1..n, sk \in sinks :
                    Cardinality({a \in DOMAIN served' :
                                    served'[a].det = det[k] /\ served'[a].sink = sk}) = 1
              /\ \A a, b \in DOMAIN served' :
                    a < b => PositionIn(det, served'[a].det) >= PositionIn(det, served'[b].det)
      ]_vars

\* C22, the case: an image with two detections was persisted with label
\* export on, the lower-confidence detection served first.
C22_TwoDetectionsServed ==
    /\ opt.save_txt
    /\ Len(served) = 4
    /\ served[1].det.conf < served[3].det.conf
    /\ served[1].sink = "txt" /\ served[2].sink = "box"
    /\ served[3].sink = "txt" /\ served[4].sink = "box"

IntZero == [type |-> "int", text |-> <<"0">>]

\* C23: from its creation on the table is a list of exactly three entries,
\* created as three integers 0 and changed only by the assignment of a
\* decimal string to the entry of a class detected in the image at hand; a
\* detection of class index 3 or more makes the persistence step raise, no
\* step follows and no summary is emitted.
C23_ThreeEntries ==
    /\ [](dataset.kind # "none" =>
            /\ Len(gNum) = 3
            /\ \A k \in 1..3 :
                  \/ gNum[k] = IntZero
                  \/ gNum[k].type = "str" /\ \E n \in 1..MaxDets : gNum[k].text = Dec(n))
    /\ [][ pc = "classified" => gNum' = <<IntZero, IntZero, IntZero>> ]_vars
    /\ [][ dataset.kind # "none" =>
             \A k \in 1..3 :
                gNum'[k] # gNum[k] =>
                    /\ pc = "persist"
                    /\ \E j \in DOMAIN pred[i + 1] : pred[i + 1][j].cls = k - 1
                    /\ gNum'[k].type = "str"
         ]_vars
    /\ [][ (pc = "persist" /\ \E j \in DOMAIN pred[i + 1] : pred[i + 1][j].cls >= 3) =>
             (pc' = "raised" /\ printed' = <<>>) ]_vars
    /\ [][ pc # "raised" ]_vars

\* C23, the case: after an image with a goose was persisted, an image with a
\* detection of class index 3 made the run raise.
C23_ClassThreeRaised ==
    /\ pc = "raised"
    /\ seen >= 2
    /\ i < Len(pred)
    /\ \E j \in DOMAIN pred[i + 1] : pred[i + 1][j].cls = 3
    /\ gNum[1].type = "str"
    /\ gNum[3] = IntZero
    /\ printed = <<>>

TxtDescriptor == EndsWith(descriptor, DotTxt)

\* C24: the save flag is decided on the descriptor as given, whatever a
\* download makes of it later, and is off for every descriptor that ends in
\* .txt, no-save set or not: such a run writes no annotated image and opens
\* no video writer, while each of its persistence steps adds one CSV row, one
\* label line and one crop per detection when the sink's own flag is on and
\* updates the counts as for any other source. A descriptor that ends in
\* .txt is itself never downloaded.
C24_TxtDescriptorNotSaved ==
    /\ [](pc # "start" => save_img = (~opt.nosave /\ ~TxtDescriptor))
    /\ [](TxtDescriptor => (images = {} /\ writers = <<>> /\ EventsOf({"open"}) = <<>>))
    /\ [](TxtDescriptor => (source = descriptor /\ EventsOf({"download"}) = <<>>))
    /\ [][ (TxtDescriptor /\ pc = "persist" /\ pc' # "raised") =>
             LET n == Len(pred[i + 1]) IN
             /\ Len(csv'.rows) = Len(csv.rows) + (IF opt.save_csv THEN n ELSE 0)
             /\ Len(labels') = Len(labels) + (IF opt.save_txt THEN n ELSE 0)
             /\ Len(crops') = Len(crops) + (IF opt.save_crop THEN n ELSE 0)
             /\ gNum' = TableFrom(gNum, pred[i + 1])
             /\ seen' = seen + 1
         ]_vars

\* C24, the case: a run on the list file l.txt without no-save went through
\* an image and two video frames and fed the CSV, text and crop sinks.
C24_ListFileRunEnded ==
    /\ descriptor = SrcListTxt
    /\ ~opt.nosave
    /\ pc = "done"
    /\ seen = 3
    /\ cur.mode = "video"
    /\ Len(csv.rows) >= 2 /\ Len(labels) >= 2 /\ Len(crops) >= 2

\* C25: with no-save set the CSV, text and crop sinks still follow their own
\* flags: a persistence step adds the CSV row, the label line and the crop of
\* every detection of the image when the sink's flag is on and nothing when
\* it is off, and draws the box of every detection when crop export (or the
\* display) is on; what no-save suppresses is the annotated image and the
\* video writer.
C25_SinksNotGatedByNoSave ==
    [][ (opt.nosave /\ pc = "persist" /\ pc' # "raised") =>
          LET det == pred[i + 1]
              n == Len(det)
              p == cur.paths[i + 1]
          IN  /\ IF opt.save_csv
                 THEN /\ Len(csv'.rows) = Len(csv.rows) + n
                      /\ \A d \in Range(det) :
                            \E k \in (Len(csv.rows) + 1)..Len(csv'.rows) :
                                csv'.rows[k].cells =
                                    <<Name(p), names[d.cls + 1], ConfidenceStr(d.conf)>>
                 ELSE csv' = csv
              /\ IF opt.save_txt
                 THEN /\ Len(labels') = Len(labels) + n
                      /\ \A d \in Range(det) :
                            \E k \in (Len(labels) + 1)..Len(labels') : labels'[k].line.cls = d.cls
                 ELSE labels' = labels
              /\ IF opt.save_crop
                 THEN /\ Len(crops') = Len(crops) + n
                      /\ \A d \in Range(det) :
                            \E k \in (Len(crops) + 1)..Len(crops') :
                                /\ crops'[k].xyxy = d.xyxy
                                /\ crops'[k].dir = names[d.cls + 1]
                                /\ crops'[k].stem = Stem(p)
                 ELSE crops' = crops
              /\ IF opt.save_crop \/ opt.view_img
                 THEN {drawn'[k].xyxy : k \in DOMAIN drawn'} = {d.xyxy : d \in Range(det)}
                 ELSE drawn' = <<>>
              /\ images' = images /\ images = {}
              /\ writers' = writers /\ writers = <<>>
      ]_vars

\* C25, the case: a run with no-save and CSV, text and crop export on has
\* persisted an image with two detections.
C25_NoSaveSinksFed ==
    /\ opt.nosave /\ opt.save_csv /\ opt.save_txt /\ opt.save_crop
    /\ Len(drawn) = 2
    /\ Len(csv.rows) >= 2 /\ Len(labels) >= 2 /\ Len(crops) >= 2
    /\ images = {}
    /\ writers = <<>>

====
